---- MODULE Spec2Model ----
(***************************************************************************)
(* Verification model of geoq's packed Hilbert R-tree index builder       *)
(* (src/geoq/fgb/index.rs, src/geoq/fgb/hilbert.rs) and of the parallel    *)
(* line pipeline (src/geoq/par.rs).                                         *)
(*                                                                         *)
(* Coordinates are f64 in the program.  The model uses integers: every     *)
(* operation the model takes on a coordinate is an order comparison, a sum  *)
(* of two, a halving, or floor(65535 * c / d) with small integer c and d,   *)
(* and on such operands the f64 result equals the exact one.               *)
(***************************************************************************)
EXTENDS Integers, Sequences, FiniteSets, TLC

(***************************************************************************)
(* Program constants and model bounds                                      *)
(***************************************************************************)
\* index.rs:7   pub const NODE_SIZE: u16 = 16;
NODE_SIZE == 16

\* largest number of leaves handed to build_flattened_tree
MaxFeatures == 20
\* largest feature count handed to calculate_level_bounds on its own,
\* besides the fixture counts of test_level_bounds
MaxPlanFeatures == 300
\* number of usize entries the allocator can give nodes_per_level before
\* Vec::push fails (stands for the finite memory of the machine)
MaxVecLen == 8
\* largest absolute coordinate of a finite input box
CoordMax == 40

VARIABLES
    \* ---- index.rs -------------------------------------------------------
    ipc,                     \* position inside index.rs
    caller,                  \* "plan": calculate_level_bounds called alone,
                             \* "build": called from build_flattened_tree
    num_features,            \* argument of calculate_level_bounds
    current_level_size,      \* index.rs:111
    nodes_per_level,         \* index.rs:110 (num_nodes_per_level once returned)
    level_bounds,            \* index.rs:130, sequence of ranges [start, end)
    num_nodes,               \* RTreeIndexMeta.num_nodes
    hilbert_sorted_features, \* argument of build_flattened_tree, 0-indexed
    extent,                  \* argument of build_flattened_tree
    flattened_tree,          \* index.rs:24, 0-indexed
    feature_index,           \* cursor of the leaf loop, index.rs:38
    level_index,             \* cursor of the level loop, index.rs:54
    node_index,              \* cursor of the node loop, index.rs:59
    reads,                   \* per node: the flat indices read as its children
    \* ---- hilbert.rs -----------------------------------------------------
    hpc,                     \* position inside hilbert.rs
    hcaller,                 \* "encode": hilbert called on two grid points,
                             \* "sort": sort_with_extent called
    point_a, point_b,        \* the two grid points handed to hilbert
    value_a, value_b,        \* what hilbert returned for them
    features,                \* argument of sort_with_extent
    bounded_feats,           \* hilbert.rs:165
    sort_extent,             \* hilbert.rs:164, the extent returned
    sorted_features,         \* the features returned
    \* ---- par.rs ---------------------------------------------------------
    num_workers,             \* par.rs:70
    buf_size,                \* capacity of every sync_channel, par.rs:77-78
    lines,                   \* the input: what processing each line gives
    input_chan,              \* per worker: the messages in its input channel
    output_chan,             \* per worker: the messages in its output channel
    wpc,                     \* per worker: position of its thread
    pending,                 \* per worker: the outputs it still has to send
    mpc,                     \* position of the thread that called for_entity_par
    next_line,               \* lines dispatched so far, par.rs:150
    done_sent,               \* Done messages sent so far, par.rs:155
    output_channels,         \* par.rs:73, the receivers the printer still holds
    ppc,                     \* position of the printer thread
    pidx,                    \* i of the for loop, par.rs:127
    plen,                    \* end of the range of the for loop, par.rs:127
    printed                  \* the lines whose batches were printed, in order

ivars == <<ipc, caller, num_features, current_level_size, nodes_per_level,
           level_bounds, num_nodes, hilbert_sorted_features, extent,
           flattened_tree, feature_index, level_index, node_index, reads>>

hvars == <<hpc, hcaller, point_a, point_b, value_a, value_b, features,
           bounded_feats, sort_extent, sorted_features>>

pvars == <<num_workers, buf_size, lines, input_chan, output_chan, wpc, pending,
           mpc, next_line, done_sent, output_channels, ppc, pidx, plen, printed>>

vars == <<ivars, hvars, pvars>>

(***************************************************************************)
(* BBox  (hilbert.rs)                                                      *)
(***************************************************************************)
BBox(a, b, c, d) == [min_x |-> a, min_y |-> b, max_x |-> c, max_y |-> d]

\* BBox::new, hilbert.rs:13-20
new(x, y) == BBox(x, y, x, y)

\* the value that stands for f64::INFINITY: above every finite coordinate
INF == CoordMax + 1

\* BBox::empty(): the neutral accumulator, inverted infinities
empty == BBox(INF, INF, -INF, -INF)

\* BBox::expand, hilbert.rs:22-35
expand(self, other) ==
    [min_x |-> IF other.min_x < self.min_x THEN other.min_x ELSE self.min_x,
     min_y |-> IF other.min_y < self.min_y THEN other.min_y ELSE self.min_y,
     max_x |-> IF other.max_x > self.max_x THEN other.max_x ELSE self.max_x,
     max_y |-> IF other.max_y > self.max_y THEN other.max_y ELSE self.max_y]

\* IndexNode { bbox, offset }, as built at index.rs:20-23 and 83-86
IndexNode(b, o) == [bbox |-> b, offset |-> o]

\* index.rs:20-23
placeholder_node == IndexNode(empty, 0)

\* a Range<usize>, start..end
Range(s, e) == [start |-> s, end |-> e]

\* Range::len
RangeLen(r) == IF r.end > r.start THEN r.end - r.start ELSE 0

(***************************************************************************)
(* calculate_level_bounds  (index.rs:107-142)                              *)
(***************************************************************************)
\* parent size by truncating division
next_level_size_floor(current) == current \div NODE_SIZE

\* index.rs:115-119
next_level_size(current) ==
    IF current % NODE_SIZE = 0
    THEN current \div NODE_SIZE
    ELSE current \div NODE_SIZE + 1

\* Vec::reverse, index.rs:128
RECURSIVE reverse(_)
reverse(s) == IF s = <<>> THEN <<>> ELSE Append(reverse(Tail(s)), Head(s))

\* iter().sum(), index.rs:138
RECURSIVE sum(_)
sum(s) == IF s = <<>> THEN 0 ELSE Head(s) + sum(Tail(s))

\* ranges that all start at 0
RECURSIVE level_ranges_from_zero(_, _)
level_ranges_from_zero(sizes, nodes_so_far) ==
    IF sizes = <<>> THEN <<>>
    ELSE <<Range(0, Head(sizes) + nodes_so_far)>>
         \o level_ranges_from_zero(Tail(sizes), Head(sizes) + nodes_so_far)

\* the loop at index.rs:129-135
RECURSIVE level_ranges(_, _)
level_ranges(sizes, nodes_so_far) ==
    IF sizes = <<>> THEN <<>>
    ELSE <<Range(nodes_so_far, Head(sizes) + nodes_so_far)>>
         \o level_ranges(Tail(sizes), Head(sizes) + nodes_so_far)

\* one iteration of the loop at index.rs:112-127.  A push onto a full vector
\* is an allocation failure: the process aborts.
PlanLoop ==
    /\ ipc = "plan_loop"
    /\ LET next == next_level_size(current_level_size)
           pushed == Append(nodes_per_level, current_level_size)
       IN  IF Len(nodes_per_level) >= MaxVecLen
           THEN /\ ipc' = "oom"
                /\ UNCHANGED <<nodes_per_level, current_level_size>>
           ELSE IF next = 1
           THEN IF Len(pushed) >= MaxVecLen
                THEN /\ ipc' = "oom"
                     /\ nodes_per_level' = pushed
                     /\ UNCHANGED current_level_size
                ELSE /\ nodes_per_level' = Append(pushed, next)
                     /\ ipc' = "plan_finish"
                     /\ UNCHANGED current_level_size
           ELSE /\ nodes_per_level' = pushed
                /\ current_level_size' = next
                /\ UNCHANGED ipc
    /\ UNCHANGED <<caller, num_features, level_bounds, num_nodes,
                   hilbert_sorted_features, extent, flattened_tree,
                   feature_index, level_index, node_index, reads>>
    /\ UNCHANGED <<hvars, pvars>>

\* index.rs:128-141: reverse, lay the ranges out, sum, return
PlanFinish ==
    /\ ipc = "plan_finish"
    /\ nodes_per_level' = reverse(nodes_per_level)
    /\ level_bounds' = level_ranges(nodes_per_level', 0)
    /\ num_nodes' = sum(nodes_per_level')
    /\ ipc' = "plan_returned"
    /\ UNCHANGED <<caller, num_features, current_level_size,
                   hilbert_sorted_features, extent, flattened_tree,
                   feature_index, level_index, node_index, reads>>
    /\ UNCHANGED <<hvars, pvars>>

(***************************************************************************)
(* build_flattened_tree  (index.rs:9-92)                                   *)
(***************************************************************************)
\* level_bounds[k] with the program's 0-based level index
LB(k) == level_bounds[k + 1]

\* index.rs:19-31: the planner has returned; allocate, take the bottom level
Allocate ==
    /\ ipc = "plan_returned"
    /\ caller = "build"
    /\ flattened_tree' = [i \in 0 .. num_nodes - 1 |-> placeholder_node]
    /\ reads' = [i \in 0 .. num_nodes - 1 |-> {}]
    /\ feature_index' = 0
    /\ ipc' = "leaf_fill"
    /\ UNCHANGED <<caller, num_features, current_level_size, nodes_per_level,
                   level_bounds, num_nodes, hilbert_sorted_features, extent,
                   level_index, node_index>>
    /\ UNCHANGED <<hvars, pvars>>

\* bottom, index.rs:28-31
bottom == level_bounds[Len(level_bounds)]

\* one iteration of the leaf loop, index.rs:38-44, or its end and the start
\* of the level loop of index.rs:54 at the second-to-last level
LeafFill ==
    /\ ipc = "leaf_fill"
    /\ IF feature_index < RangeLen(bottom)
       THEN LET ni == bottom.start + feature_index
            IN  IF ni \notin DOMAIN flattened_tree
                   \/ feature_index \notin DOMAIN hilbert_sorted_features
                THEN /\ ipc' = "panic"
                     /\ UNCHANGED <<flattened_tree, feature_index,
                                    level_index, node_index>>
                ELSE /\ flattened_tree' =
                          [flattened_tree EXCEPT
                             ![ni] = hilbert_sorted_features[feature_index]]
                     /\ feature_index' = feature_index + 1
                     /\ UNCHANGED <<ipc, level_index, node_index>>
       ELSE /\ level_index' = Len(level_bounds) - 2
            /\ node_index' = LB(Len(level_bounds) - 2).start
            /\ ipc' = "aggregate"
            /\ UNCHANGED <<flattened_tree, feature_index>>
    /\ UNCHANGED <<caller, num_features, current_level_size, nodes_per_level,
                   level_bounds, num_nodes, hilbert_sorted_features, extent,
                   reads>>
    /\ UNCHANGED <<hvars, pvars>>

\* break one past the finer level's end
break_past_level_end(prev_idx, prev_level) == prev_idx > prev_level.end

\* index.rs:65  if prev_idx > prev_level.len() { break; }
break_at(prev_idx, prev_level) == prev_idx > RangeLen(prev_level)

\* index.rs:61
prev_level_slice_start(prev_level, ni) == prev_level.start + ni * NODE_SIZE

\* index.rs:62
prev_level_slice_end(prev_level, ni) == prev_level.start + (ni + 1) * NODE_SIZE

\* the indices flattened_tree is read at by the loop of index.rs:64-81
child_reads(prev_level, ni) ==
    {idx \in prev_level_slice_start(prev_level, ni)
              .. prev_level_slice_end(prev_level, ni) - 1 :
        \A j \in prev_level_slice_start(prev_level, ni) .. idx :
            ~break_at(j, prev_level)}

\* the loop of index.rs:64-81 from prev_idx on; bbox is an Option<BBox>:
\* <<>> is None, <<b>> is Some(b)
RECURSIVE aggregate(_, _, _, _, _)
aggregate(tree, prev_level, prev_idx, slice_end, bbox) ==
    IF prev_idx >= slice_end \/ break_at(prev_idx, prev_level)
    THEN bbox
    ELSE aggregate(tree, prev_level, prev_idx + 1, slice_end,
                   IF bbox = <<>>
                   THEN <<tree[prev_idx].bbox>>
                   ELSE <<expand(bbox[1], tree[prev_idx].bbox)>>)

\* Option::unwrap_or, index.rs:84
unwrap_or(opt, default) == IF opt = <<>> THEN default ELSE opt[1]

\* one iteration of the node loop, index.rs:59-88, with the step of the
\* level loop of index.rs:54 when the level is finished
AggregateNode ==
    /\ ipc = "aggregate"
    /\ LET lb == LB(level_index)
           prev_level == LB(level_index + 1)
           rd == child_reads(prev_level, node_index)
           bbox == aggregate(flattened_tree, prev_level,
                             prev_level_slice_start(prev_level, node_index),
                             prev_level_slice_end(prev_level, node_index),
                             <<>>)
       IN  /\ reads' = [reads EXCEPT ![node_index] = rd]
           /\ IF \E idx \in rd : idx \notin DOMAIN flattened_tree
              THEN /\ ipc' = "panic"
                   /\ UNCHANGED <<flattened_tree, level_index, node_index>>
              ELSE /\ flattened_tree' =
                        [flattened_tree EXCEPT
                           ![node_index] = IndexNode(unwrap_or(bbox, empty), 0)]
                   /\ IF node_index + 1 < lb.end
                      THEN /\ node_index' = node_index + 1
                           /\ UNCHANGED <<ipc, level_index>>
                      ELSE IF level_index = 0
                      THEN /\ ipc' = "done"
                           /\ UNCHANGED <<level_index, node_index>>
                      ELSE /\ level_index' = level_index - 1
                           /\ node_index' = LB(level_index - 1).start
                           /\ UNCHANGED ipc
    /\ UNCHANGED <<caller, num_features, current_level_size, nodes_per_level,
                   level_bounds, num_nodes, hilbert_sorted_features, extent,
                   feature_index>>
    /\ UNCHANGED <<hvars, pvars>>

(***************************************************************************)
(* Inputs of index.rs                                                      *)
(***************************************************************************)
\* the counts of test_level_bounds, index.rs:146, 152, 158
FixtureCounts == {179, 15, 100000}

PlanCounts == (0 .. MaxPlanFeatures) \cup FixtureCounts

\* the leaves of test_building_index, index.rs:170-189
TestLeaves ==
    [i \in 0 .. 1 |->
        IF i = 0 THEN IndexNode(BBox(11, -29, 25, -16), 0)
                 ELSE IndexNode(BBox(16, -34, 32, -22), 100)]

\* finite boxes the leaves are drawn from
BaseBoxes == {BBox(0, 0, 1, 1), BBox(-3, 2, -1, 5)}
OtherBoxes == {BBox(0, 0, 1, 1), BBox(2, -4, 6, -1), BBox(-CoordMax, -2, 0, CoordMax)}

\* n leaves: box b everywhere but at position p, where it is c
Leaves(n, p, b, c) ==
    [i \in 0 .. n - 1 |-> IndexNode(IF i = p THEN c ELSE b, 100 * i)]

LeafInputs ==
    {TestLeaves} \cup
    {Leaves(n, p, b, c) : n \in 0 .. MaxFeatures, p \in 0 .. MaxFeatures,
                          b \in BaseBoxes, c \in OtherBoxes}

\* the union of the boxes of leaves i .. n-1, folded the way the caller of
\* build_flattened_tree accumulates an extent
RECURSIVE union_from(_, _, _)
union_from(leaves, i, acc) ==
    IF i \notin DOMAIN leaves THEN acc
    ELSE union_from(leaves, i + 1, expand(acc, leaves[i].bbox))

union_of(leaves) ==
    IF 0 \notin DOMAIN leaves THEN new(0, 0)
    ELSE union_from(leaves, 1, leaves[0].bbox)

InitIndex ==
    /\ ipc = "plan_loop"
    /\ \/ /\ caller = "plan"
          /\ num_features \in PlanCounts
          /\ hilbert_sorted_features = <<>>
          /\ extent = new(0, 0)
       \/ /\ caller = "build"
          /\ hilbert_sorted_features \in LeafInputs
          /\ num_features = Cardinality(DOMAIN hilbert_sorted_features)
          /\ extent = union_of(hilbert_sorted_features)
    /\ current_level_size = num_features
    /\ nodes_per_level = <<>>
    /\ level_bounds = <<>>
    /\ num_nodes = 0
    /\ flattened_tree = <<>>
    /\ feature_index = 0
    /\ level_index = 0
    /\ node_index = 0
    /\ reads = <<>>

(***************************************************************************)
(* u32 values  (hilbert.rs:182-237)                                        *)
(*                                                                         *)
(* A u32 is the set of the positions of its 1 bits, bit 0 the lowest: the   *)
(* encoder's results go up to 2^32 - 1.                                    *)
(***************************************************************************)
\* number of bits of a u32
U32_BITS == 32

\* u32::MAX, what a float above the u32 range is cast to
U32_MAX == 0 .. U32_BITS - 1

\* 0xFFFF
xFFFF == 0 .. 15

\* 0x00FF00FF
x00FF00FF == {b \in U32_MAX : b % 16 < 8}

\* 0x0F0F0F0F
x0F0F0F0F == {b \in U32_MAX : b % 8 < 4}

\* 0x33333333
x33333333 == {b \in U32_MAX : b % 4 < 2}

\* 0x55555555
x55555555 == {b \in U32_MAX : b % 2 = 0}

\* a ^ b
xor(a, b) == (a \ b) \cup (b \ a)

\* a & b
and(a, b) == a \cap b

\* a | b
or(a, b) == a \cup b

\* a >> k
shr(a, k) == {b - k : b \in {c \in a : c >= k}}

\* a << k on a u32: the bits shifted out are lost
shl(a, k) == {b + k : b \in {c \in a : c + k < U32_BITS}}

\* the u32 of a non-negative integer below 2^31
to_u32(n) == {b \in 0 .. U32_BITS - 2 : (n \div (2 ^ b)) % 2 = 1}

\* u32 order: a < b
lt(a, b) ==
    /\ a # b
    /\ \E h \in b \ a : \A l \in xor(a, b) : l <= h

\* u32::partial_cmp, hilbert.rs:175
partial_cmp(a, b) == IF lt(a, b) THEN "Less" ELSE IF a = b THEN "Equal" ELSE "Greater"

(***************************************************************************)
(* hilbert  (hilbert.rs:182-237)                                           *)
(***************************************************************************)
\* the spreading of the bits without its last step
interleave_three_steps(i) ==
    LET s8 == and(or(i, shl(i, 8)), x00FF00FF)
        s4 == and(or(s8, shl(s8, 4)), x0F0F0F0F)
    IN  and(or(s4, shl(s4, 2)), x33333333)

\* hilbert.rs:224-227 and 229-232: spread the low 16 bits over the even bits
interleave(i) ==
    LET s8 == and(or(i, shl(i, 8)), x00FF00FF)
        s4 == and(or(s8, shl(s8, 4)), x0F0F0F0F)
        s2 == and(or(s4, shl(s4, 2)), x33333333)
    IN  and(or(s2, shl(s2, 1)), x55555555)

\* hilbert.rs:197-200 and 206-209: one doubling step of the prefix scan with
\* shift k on the state (a, b, c, d); cc and dd are xor-ed into
scan_step(a, b, c, d, k) ==
    [aa |-> xor(and(a, shr(a, k)), and(b, shr(b, k))),
     bb |-> xor(and(a, shr(b, k)), and(b, shr(xor(a, b), k))),
     cc |-> xor(c, xor(and(a, shr(c, k)), and(b, shr(d, k)))),
     dd |-> xor(d, xor(and(b, shr(c, k)), and(xor(a, b), shr(d, k))))]

\* hilbert.rs:182-237
hilbert(x, y) ==
    LET a0 == xor(x, y)
        b0 == xor(xFFFF, a0)
        c0 == xor(xFFFF, or(x, y))
        d0 == and(x, xor(y, xFFFF))
        \* hilbert.rs:188-191
        a1 == or(a0, shr(b0, 1))
        b1 == xor(shr(a0, 1), a0)
        c1 == xor(xor(shr(c0, 1), and(b0, shr(d0, 1))), c0)
        d1 == xor(xor(and(a0, shr(c0, 1)), shr(d0, 1)), d0)
        \* hilbert.rs:193-200
        s2 == scan_step(a1, b1, c1, d1, 2)
        \* hilbert.rs:202-209
        s3 == scan_step(s2.aa, s2.bb, s2.cc, s2.dd, 4)
        \* hilbert.rs:211-216
        s4 == scan_step(s3.aa, s3.bb, s3.cc, s3.dd, 8)
        \* hilbert.rs:218-219
        a5 == xor(s4.cc, shr(s4.cc, 1))
        b5 == xor(s4.dd, shr(s4.dd, 1))
        \* hilbert.rs:221-222
        i0 == xor(x, y)
        i1 == or(b5, xor(xFFFF, or(i0, a5)))
    IN  \* hilbert.rs:234
        or(shl(interleave(i1), 1), interleave(i0))

(***************************************************************************)
(* BBox for features and the Hilbert key  (hilbert.rs:37-131)              *)
(*                                                                         *)
(* A feature is [id, coords]: coords is the sequence of all the            *)
(* coordinates of its geometry in the order expand_geom visits them, empty  *)
(* for a feature without geometry; id is its place in the input.           *)
(***************************************************************************)
\* hilbert.rs:157, (1 << 16) - 1
HILBERT_MAX == 65535

\* feat_coord, hilbert.rs:134-155
feat_coord(f) == IF f.coords = <<>> THEN <<0, 0>> ELSE f.coords[1]

\* BBox::expand_xy, hilbert.rs:37-50
expand_xy(self, x, y) ==
    [min_x |-> IF x < self.min_x THEN x ELSE self.min_x,
     min_y |-> IF y < self.min_y THEN y ELSE self.min_y,
     max_x |-> IF x > self.max_x THEN x ELSE self.max_x,
     max_y |-> IF y > self.max_y THEN y ELSE self.max_y]

\* BBox::expand_feature over the coordinates from position i on,
\* hilbert.rs:52-97
RECURSIVE expand_feature(_, _, _)
expand_feature(self, coords, i) ==
    IF i > Len(coords) THEN self
    ELSE expand_feature(expand_xy(self, coords[i][1], coords[i][2]), coords, i + 1)

\* BBox::for_feature, hilbert.rs:99-104
for_feature(f) ==
    expand_feature(new(feat_coord(f)[1], feat_coord(f)[2]), f.coords, 1)

\* BBox::center, hilbert.rs:110-115, as twice the centre (an integer): both
\* components come from the x bounds
center2(self) == <<self.min_x + self.max_x, self.min_x + self.max_x>>

\* BBox::width, hilbert.rs:117-119
width(self) == self.max_x - self.min_x

\* BBox::height, hilbert.rs:121-123
height(self) == self.max_y - self.min_y

\* (HILBERT_MAX * mid / dim).floor() as u32, hilbert.rs:128-129, with mid
\* given as mid2 / 2.  The cast saturates: a negative value and NaN (0/0)
\* give 0, +infinity gives u32::MAX.
scale_to_grid(mid2, dim) ==
    IF dim = 0
    THEN IF mid2 > 0 THEN U32_MAX ELSE {}
    ELSE IF (dim > 0 /\ mid2 < 0) \/ (dim < 0 /\ mid2 > 0) THEN {}
    ELSE IF dim > 0 THEN to_u32((HILBERT_MAX * mid2) \div (2 * dim))
    ELSE to_u32((HILBERT_MAX * (-mid2)) \div (2 * (-dim)))

\* the x and y of hilbert.rs:127-129: the grid coordinates that hilbert_bbox
\* hands to hilbert
grid_coords(self, ext) ==
    <<scale_to_grid(center2(self)[1], width(ext)),
      scale_to_grid(center2(self)[2], height(ext))>>

\* BBox::hilbert_bbox, hilbert.rs:125-131
hilbert_bbox(self, ext) ==
    hilbert(grid_coords(self, ext)[1], grid_coords(self, ext)[2])

(***************************************************************************)
(* sort_with_extent  (hilbert.rs:159-179)                                  *)
(***************************************************************************)
\* the comparator of hilbert.rs:173-177 on two (feature, bbox) pairs
compare(fa, fb, ext) ==
    partial_cmp(hilbert_bbox(fa.bb, ext), hilbert_bbox(fb.bb, ext))

\* slice::sort_by is a stable sort: e, which followed the elements of the
\* sorted run s in the input, goes before the first element greater than it
RECURSIVE insert_by(_, _, _)
insert_by(s, e, ext) ==
    IF s = <<>> THEN <<e>>
    ELSE IF compare(e, Head(s), ext) = "Less" THEN <<e>> \o s
    ELSE <<Head(s)>> \o insert_by(Tail(s), e, ext)

\* slice::sort_by, hilbert.rs:173-177
RECURSIVE sort_by(_, _)
sort_by(s, ext) ==
    IF s = <<>> THEN <<>>
    ELSE insert_by(sort_by(SubSeq(s, 1, Len(s) - 1), ext), s[Len(s)], ext)

\* hilbert.rs:160-164: seed the extent from the first feature's coordinate
SortStart ==
    /\ hpc = "sort_start"
    /\ sort_extent' = IF features = <<>> THEN new(0, 0)
                      ELSE new(feat_coord(features[1])[1], feat_coord(features[1])[2])
    /\ bounded_feats' = <<>>
    /\ hpc' = "sort_map"
    /\ UNCHANGED <<hcaller, point_a, point_b, value_a, value_b, features,
                   sorted_features>>
    /\ UNCHANGED <<ivars, pvars>>

\* one feature through the closure of hilbert.rs:167-171
SortMap ==
    /\ hpc = "sort_map"
    /\ Len(bounded_feats) < Len(features)
    /\ LET f == features[Len(bounded_feats) + 1]
           bb == for_feature(f)
       IN  /\ sort_extent' = expand(sort_extent, bb)
           /\ bounded_feats' = Append(bounded_feats, [f |-> f, bb |-> bb])
    /\ UNCHANGED <<hpc, hcaller, point_a, point_b, value_a, value_b, features,
                   sorted_features>>
    /\ UNCHANGED <<ivars, pvars>>

\* hilbert.rs:173-178: sort, drop the boxes, return
SortBy ==
    /\ hpc = "sort_map"
    /\ Len(bounded_feats) = Len(features)
    /\ bounded_feats' = sort_by(bounded_feats, sort_extent)
    /\ sorted_features' = [i \in 1 .. Len(bounded_feats') |-> bounded_feats'[i].f]
    /\ hpc' = "sort_returned"
    /\ UNCHANGED <<hcaller, point_a, point_b, value_a, value_b, features,
                   sort_extent>>
    /\ UNCHANGED <<ivars, pvars>>

\* hilbert called on the first grid point
EncodeA ==
    /\ hpc = "encode_a"
    /\ value_a' = hilbert(to_u32(point_a[1]), to_u32(point_a[2]))
    /\ hpc' = "encode_b"
    /\ UNCHANGED <<hcaller, point_a, point_b, value_b, features, bounded_feats,
                   sort_extent, sorted_features>>
    /\ UNCHANGED <<ivars, pvars>>

\* hilbert called on the second grid point
EncodeB ==
    /\ hpc = "encode_b"
    /\ value_b' = hilbert(to_u32(point_b[1]), to_u32(point_b[2]))
    /\ hpc' = "encoded"
    /\ UNCHANGED <<hcaller, point_a, point_b, value_a, features, bounded_feats,
                   sort_extent, sorted_features>>
    /\ UNCHANGED <<ivars, pvars>>

(***************************************************************************)
(* Inputs of hilbert.rs                                                    *)
(***************************************************************************)
\* the grid coordinates 0 .. SampleBlock are sampled densely
SampleBlock == 3
\* longest feature sequence handed to sort_with_extent
MaxSortLen == 3

\* sampled coordinates of the 16-bit grid
GridSample ==
    (0 .. SampleBlock) \cup {255, 256, 21845, 32767, 32768, 43690, 65534, HILBERT_MAX}

\* geometries: none, boxes anchored at the origin, points, a box left of the
\* origin, a box far from the origin
Geometries ==
    { <<>>,
      << <<0, 0>>, <<4, 2>> >>,
      << <<0, 0>>, <<2, 4>> >>,
      << <<4, 4>> >>,
      << <<4, 0>> >>,
      << <<0, 4>> >>,
      << <<-3, 1>>, <<-1, 5>> >>,
      << <<CoordMax - 10, CoordMax - 10>>, <<CoordMax - 8, CoordMax - 6>> >> }

FeatureInputs ==
    UNION {[1 .. n -> Geometries] : n \in 0 .. MaxSortLen}

InitHilbert ==
    \/ /\ hcaller = "encode"
       /\ hpc = "encode_a"
       /\ point_a \in GridSample \X GridSample
       /\ point_b \in GridSample \X GridSample
       /\ value_a = {}
       /\ value_b = {}
       /\ features = <<>>
       /\ bounded_feats = <<>>
       /\ sort_extent = new(0, 0)
       /\ sorted_features = <<>>
    \/ /\ hcaller = "sort"
       /\ hpc = "sort_start"
       /\ \E g \in FeatureInputs :
              features = [i \in 1 .. Len(g) |-> [id |-> i, coords |-> g[i]]]
       /\ point_a = <<0, 0>>
       /\ point_b = <<0, 0>>
       /\ value_a = {}
       /\ value_b = {}
       /\ bounded_feats = <<>>
       /\ sort_extent = new(0, 0)
       /\ sorted_features = <<>>

\* hilbert.rs is not running
IdleHilbert ==
    /\ hcaller = "none"
    /\ hpc = "idle"
    /\ point_a = <<0, 0>>
    /\ point_b = <<0, 0>>
    /\ value_a = {}
    /\ value_b = {}
    /\ features = <<>>
    /\ bounded_feats = <<>>
    /\ sort_extent = new(0, 0)
    /\ sorted_features = <<>>

\* index.rs is not running
IdleIndex ==
    /\ ipc = "idle"
    /\ caller = "none"
    /\ num_features = 0
    /\ current_level_size = 0
    /\ nodes_per_level = <<>>
    /\ level_bounds = <<>>
    /\ num_nodes = 0
    /\ hilbert_sorted_features = <<>>
    /\ extent = new(0, 0)
    /\ flattened_tree = <<>>
    /\ feature_index = 0
    /\ level_index = 0
    /\ node_index = 0
    /\ reads = <<>>

(***************************************************************************)
(* for_entity_par  (par.rs:66-162)                                         *)
(*                                                                         *)
(* Workers are numbered 0 .. num_workers - 1 and lines 0 .. L - 1, as in    *)
(* the program.  A line is "ok" (read_line, from_input and the handler all  *)
(* succeed), "parse_err" (read_line or from_input fails) or "handler_err"   *)
(* (the handler fails on an entity of the line).                           *)
(***************************************************************************)
\* WorkerInput, par.rs:17-20
Item(i) == [kind |-> "Item", line |-> i]
Done == [kind |-> "Done", line |-> -1]

\* WorkerOutput, par.rs:22-25
OutOk(i) == [kind |-> "Ok", line |-> i]
OutErr(i) == [kind |-> "Err", line |-> i]
OutDone == [kind |-> "Done", line |-> -1]

\* the worker the next line goes to, shifted by one
line_target_shifted(i, n) == (i + 1) % n

\* par.rs:151  input_channels[i % num_workers]
line_target(i, n) == i % n

\* a Done that leaves the receiver in the vector
remove_nothing(chs, i) == chs

\* Vec::remove(i), par.rs:141, i counted from 0
remove(chs, i) == SubSeq(chs, 1, i) \o SubSeq(chs, i + 2, Len(chs))

\* what a worker sends for an input message, par.rs:86-115, in order
outputs_for(msg) ==
    IF msg.kind = "Done" THEN <<OutDone>>
    ELSE IF lines[msg.line + 1] = "ok" THEN <<OutOk(msg.line)>>
    ELSE IF lines[msg.line + 1] = "parse_err" THEN <<OutErr(msg.line)>>
    ELSE <<OutErr(msg.line), OutOk(msg.line)>>

\* the process is running: process::exit, par.rs:138, has not been called
Running == ppc # "process_exit"

\* the thread of worker w has ended and dropped its ends of the channels
WorkerGone(w) == wpc[w] \in {"exited", "panicked"}

\* the printer has dropped the receiver of worker w's output channel
ReceiverDropped(w) == \A k \in 1 .. Len(output_channels) : output_channels[k] # w

\* processing the line of msg panics (read_line, from_input or the handler,
\* par.rs:90-97): the thread unwinds and sends nothing
panics_on(msg) == msg.kind = "Item" /\ lines[msg.line + 1] = "panic"

\* par.rs:84-86, 112: worker w takes a message from its input channel
WorkerRecv(w) ==
    /\ Running
    /\ w \in 0 .. num_workers - 1
    /\ wpc[w] = "recv"
    /\ input_chan[w] # <<>>
    /\ input_chan' = [input_chan EXCEPT ![w] = Tail(@)]
    /\ IF panics_on(Head(input_chan[w]))
       THEN /\ wpc' = [wpc EXCEPT ![w] = "panicked"]
            /\ UNCHANGED pending
       ELSE /\ pending' = [pending EXCEPT ![w] = outputs_for(Head(input_chan[w]))]
            /\ wpc' = [wpc EXCEPT ![w] = "send"]
    /\ UNCHANGED <<num_workers, buf_size, lines, output_chan, mpc, next_line,
                   done_sent, output_channels, ppc, pidx, plen, printed>>
    /\ UNCHANGED <<ivars, hvars>>

\* par.rs:91-113: worker w sends its next output; the send waits while the
\* channel is full, and unwrap panics when the receiver is gone
WorkerSend(w) ==
    /\ Running
    /\ w \in 0 .. num_workers - 1
    /\ wpc[w] = "send"
    /\ IF ReceiverDropped(w)
       THEN /\ wpc' = [wpc EXCEPT ![w] = "panicked"]
            /\ UNCHANGED <<output_chan, pending>>
       ELSE /\ Len(output_chan[w]) < buf_size
            /\ output_chan' = [output_chan EXCEPT ![w] = Append(@, Head(pending[w]))]
            /\ pending' = [pending EXCEPT ![w] = Tail(@)]
            /\ wpc' = [wpc EXCEPT ![w] =
                          IF Len(pending[w]) > 1 THEN "send"
                          ELSE IF Head(pending[w]).kind = "Done" THEN "exited"
                          ELSE "recv"]
    /\ UNCHANGED <<num_workers, buf_size, lines, input_chan, mpc, next_line,
                   done_sent, output_channels, ppc, pidx, plen, printed>>
    /\ UNCHANGED <<ivars, hvars>>

\* the thread of worker w, par.rs:82-118
Worker(w) == WorkerRecv(w) \/ WorkerSend(w)

\* the printer goes on to the next i of the for loop, or, at its end, to the
\* test of the while loop, par.rs:126-127
PrinterAdvance ==
    IF pidx + 1 < plen
    THEN /\ pidx' = pidx + 1
         /\ UNCHANGED <<plen, ppc>>
    ELSE /\ ppc' = "while"
         /\ UNCHANGED <<pidx, plen>>

\* the printer leaves the for loop, par.rs:142, for the test of the while loop
PrinterBreak ==
    /\ ppc' = "while"
    /\ UNCHANGED <<pidx, plen>>

\* par.rs:126-127: the test of the while loop; the for loop starts over the
\* channels that are left
PrinterWhile ==
    /\ Running
    /\ ppc = "while"
    /\ IF output_channels = <<>>
       THEN /\ ppc' = "finished"
            /\ UNCHANGED <<pidx, plen>>
       ELSE /\ ppc' = "for"
            /\ pidx' = 0
            /\ plen' = Len(output_channels)
    /\ UNCHANGED <<num_workers, buf_size, lines, input_chan, output_chan, wpc,
                   pending, mpc, next_line, done_sent, output_channels, printed>>
    /\ UNCHANGED <<ivars, hvars>>

\* par.rs:128-144: the printer receives on output_channels[i]
PrinterRecv ==
    /\ Running
    /\ ppc = "for"
    /\ IF pidx + 1 > Len(output_channels)
       THEN \* index out of bounds
            /\ ppc' = "panicked"
            /\ UNCHANGED <<output_chan, output_channels, pidx, plen, printed>>
       ELSE LET w == output_channels[pidx + 1]
            IN  IF output_chan[w] = <<>>
                THEN \* recv waits for a message, or reports that the sender
                     \* is gone: Err(RecvError) => continue
                     /\ WorkerGone(w)
                     /\ PrinterAdvance
                     /\ UNCHANGED <<output_chan, output_channels, printed>>
                ELSE LET msg == Head(output_chan[w])
                     IN  /\ output_chan' = [output_chan EXCEPT ![w] = Tail(@)]
                         /\ IF msg.kind = "Ok"
                            THEN /\ printed' = Append(printed, msg.line)
                                 /\ PrinterAdvance
                                 /\ UNCHANGED output_channels
                            ELSE IF msg.kind = "Err"
                            THEN /\ ppc' = "process_exit"
                                 /\ UNCHANGED <<output_channels, pidx, plen, printed>>
                            ELSE /\ output_channels' = remove(output_channels, pidx)
                                 /\ PrinterBreak
                                 /\ UNCHANGED printed
    /\ UNCHANGED <<num_workers, buf_size, lines, input_chan, wpc, pending, mpc,
                   next_line, done_sent>>
    /\ UNCHANGED <<ivars, hvars>>

\* the printer thread, par.rs:125-147
Printer == PrinterWhile \/ PrinterRecv

\* par.rs:150-154: the next line goes to its worker; the send waits while
\* the channel is full, and unwrap panics when the worker is gone
Dispatch ==
    /\ Running
    /\ mpc = "running"
    /\ next_line < Len(lines)
    /\ LET w == line_target(next_line, num_workers)
       IN  IF WorkerGone(w)
           THEN /\ mpc' = "panicked"
                /\ UNCHANGED <<input_chan, next_line>>
           ELSE /\ Len(input_chan[w]) < buf_size
                /\ input_chan' = [input_chan EXCEPT ![w] = Append(@, Item(next_line))]
                /\ next_line' = next_line + 1
                /\ UNCHANGED mpc
    /\ UNCHANGED <<num_workers, buf_size, lines, output_chan, wpc, pending,
                   done_sent, output_channels, ppc, pidx, plen, printed>>
    /\ UNCHANGED <<ivars, hvars>>

\* par.rs:155: Done goes to the workers in turn
SendDone ==
    /\ Running
    /\ mpc = "running"
    /\ next_line = Len(lines)
    /\ done_sent < num_workers
    /\ IF WorkerGone(done_sent)
       THEN /\ mpc' = "panicked"
            /\ UNCHANGED <<input_chan, done_sent>>
       ELSE /\ Len(input_chan[done_sent]) < buf_size
            /\ input_chan' = [input_chan EXCEPT ![done_sent] = Append(@, Done)]
            /\ done_sent' = done_sent + 1
            /\ UNCHANGED mpc
    /\ UNCHANGED <<num_workers, buf_size, lines, output_chan, wpc, pending,
                   next_line, output_channels, ppc, pidx, plen, printed>>
    /\ UNCHANGED <<ivars, hvars>>

\* par.rs:157-161: join the printer, return Ok(())
Join ==
    /\ Running
    /\ mpc = "running"
    /\ next_line = Len(lines)
    /\ done_sent = num_workers
    /\ ppc = "finished"
    /\ mpc' = "returned"
    /\ UNCHANGED <<num_workers, buf_size, lines, input_chan, output_chan, wpc,
                   pending, next_line, done_sent, output_channels, ppc, pidx,
                   plen, printed>>
    /\ UNCHANGED <<ivars, hvars>>

\* the calling thread, par.rs:149-161
Main == Dispatch \/ SendDone \/ Join

(***************************************************************************)
(* Inputs of par.rs                                                        *)
(***************************************************************************)
\* largest num_cpus::get()
MaxWorkers == 3
\* largest number of input lines
MaxLines == 4
\* largest channel capacity (WORKER_BUF_SIZE is 5000 in the program; a
\* capacity above the number of lines never makes a send wait)
MaxBufSize == 2

LineKinds == {"ok", "parse_err", "handler_err"}

\* the inputs: all lines ok, or one line of them failing
LineInputs ==
    UNION {{[i \in 1 .. n |-> "ok"]} \cup
           {[i \in 1 .. n |-> IF i = e THEN k ELSE "ok"] :
                e \in 1 .. n, k \in LineKinds} : n \in 0 .. MaxLines}

\* par.rs:70-125: the channels are made, the workers and the printer spawned
InitPar ==
    /\ num_workers \in 1 .. MaxWorkers
    /\ buf_size \in 1 .. MaxBufSize
    /\ lines \in LineInputs
    /\ input_chan = [w \in 0 .. num_workers - 1 |-> <<>>]
    /\ output_chan = [w \in 0 .. num_workers - 1 |-> <<>>]
    /\ wpc = [w \in 0 .. num_workers - 1 |-> "recv"]
    /\ pending = [w \in 0 .. num_workers - 1 |-> <<>>]
    /\ mpc = "running"
    /\ next_line = 0
    /\ done_sent = 0
    /\ output_channels = [k \in 1 .. num_workers |-> k - 1]
    /\ ppc = "while"
    /\ pidx = 0
    /\ plen = 0
    /\ printed = <<>>

\* the inputs on which a worker may panic: all lines ok, or one line of them
\* making its worker panic
PanicLineInputs ==
    UNION {{[i \in 1 .. n |-> "ok"]} \cup
           {[i \in 1 .. n |-> IF i = e THEN "panic" ELSE "ok"] : e \in 1 .. n} :
           n \in 0 .. MaxLines}

\* par.rs:70-125, for_entity_par called on such an input
InitPanicPar ==
    /\ num_workers \in 1 .. MaxWorkers
    /\ buf_size \in 1 .. MaxBufSize
    /\ lines \in PanicLineInputs
    /\ input_chan = [w \in 0 .. num_workers - 1 |-> <<>>]
    /\ output_chan = [w \in 0 .. num_workers - 1 |-> <<>>]
    /\ wpc = [w \in 0 .. num_workers - 1 |-> "recv"]
    /\ pending = [w \in 0 .. num_workers - 1 |-> <<>>]
    /\ mpc = "running"
    /\ next_line = 0
    /\ done_sent = 0
    /\ output_channels = [k \in 1 .. num_workers |-> k - 1]
    /\ ppc = "while"
    /\ pidx = 0
    /\ plen = 0
    /\ printed = <<>>

\* par.rs is not running
IdlePar ==
    /\ num_workers = 0
    /\ buf_size = 0
    /\ lines = <<>>
    /\ input_chan = <<>>
    /\ output_chan = <<>>
    /\ wpc = <<>>
    /\ pending = <<>>
    /\ mpc = "idle"
    /\ next_line = 0
    /\ done_sent = 0
    /\ output_channels = <<>>
    /\ ppc = "idle"
    /\ pidx = 0
    /\ plen = 0
    /\ printed = <<>>

(***************************************************************************)
(* Specifications                                                          *)
(***************************************************************************)
\* index.rs: calculate_level_bounds alone, or build_flattened_tree
Init == InitIndex /\ IdleHilbert /\ IdlePar

Next == PlanLoop \/ PlanFinish \/ Allocate \/ LeafFill \/ AggregateNode

Spec == Init /\ [][Next]_vars

\* the function runs on: a thread with a step to take takes it
FairSpec == Spec /\ WF_vars(Next)

\* hilbert.rs: hilbert alone, or sort_with_extent
HilbertInit == IdleIndex /\ InitHilbert /\ IdlePar

HilbertNext == SortStart \/ SortMap \/ SortBy \/ EncodeA \/ EncodeB

HilbertSpec == HilbertInit /\ [][HilbertNext]_vars

\* par.rs: for_entity_par with its workers and its printer
ParInit == IdleIndex /\ IdleHilbert /\ InitPar

ParNext ==
    \/ Main
    \/ \E w \in 0 .. MaxWorkers - 1 : Worker(w)
    \/ Printer

ParSpec == ParInit /\ [][ParNext]_vars

\* for_entity_par on the inputs whose lines are all processed without error;
\* the operating system lets every thread that can take a step take it
FairParInit == ParInit /\ \A i \in 1 .. Len(lines) : lines[i] = "ok"

FairParSpec ==
    /\ FairParInit
    /\ [][ParNext]_vars
    /\ WF_vars(Main)
    /\ \A w \in 0 .. MaxWorkers - 1 : WF_vars(Worker(w))
    /\ WF_vars(Printer)

\* for_entity_par on the inputs on which a worker may panic, with the same
\* scheduling
PanicParInit == IdleIndex /\ IdleHilbert /\ InitPanicPar

PanicParSpec ==
    /\ PanicParInit
    /\ [][ParNext]_vars
    /\ WF_vars(Main)
    /\ \A w \in 0 .. MaxWorkers - 1 : WF_vars(Worker(w))
    /\ WF_vars(Printer)

(***************************************************************************)
(* Claims about index.rs                                                   *)
(***************************************************************************)
\* the smallest box holding the boxes of the nodes at the flat indices idxs
\* (the empty sentinel when idxs is empty)
Lowest(S) == CHOOSE m \in S : \A x \in S : m <= x
Highest(S) == CHOOSE m \in S : \A x \in S : m >= x
BoxUnion(tree, idxs) ==
    IF idxs = {} THEN empty
    ELSE BBox(Lowest({tree[i].bbox.min_x : i \in idxs}),
              Lowest({tree[i].bbox.min_y : i \in idxs}),
              Highest({tree[i].bbox.max_x : i \in idxs}),
              Highest({tree[i].bbox.max_y : i \in idxs}))

\* the flat indices of the leaves in the finished tree
LeafIndices == bottom.start .. bottom.end - 1

\* C1: for every n >= 1 leaves (also n > 16, a tree of three levels), the
\* node at index 0 of the built array has the union of all n leaf boxes as
\* its bbox, which is the supplied extent when that is the same union.
C1_RootIsUnionOfLeaves ==
    (ipc = "done" /\ num_features >= 1) =>
        /\ flattened_tree[0].bbox = BoxUnion(flattened_tree, LeafIndices)
        /\ flattened_tree[0].bbox = extent

\* C2: calculate_level_bounds terminates for every num_features >= 0, and
\* for num_features = 0 it returns a layout that holds the root alone.
C2_PlannerTerminates ==
    <>(/\ ipc = "plan_returned"
       /\ num_features = 0 => nodes_per_level = <<1>>)

\* the sum of a sequence, by position
RECURSIVE TotalUpTo(_, _)
TotalUpTo(s, k) == IF k = 0 THEN 0 ELSE s[k] + TotalUpTo(s, k - 1)

\* the planner has returned its layout
PlanReturned == ipc \notin {"plan_loop", "plan_finish", "oom"}

\* C3: every returned layout is well-formed: num_nodes is the sum of
\* num_nodes_per_level, the first level is the single root, and level_bounds
\* is a root-first list of ranges from 0 to num_nodes, each starting where
\* the one before ends, range k of length num_nodes_per_level[k].
C3_LayoutWellFormed ==
    PlanReturned =>
        /\ num_nodes = TotalUpTo(nodes_per_level, Len(nodes_per_level))
        /\ nodes_per_level[1] = 1
        /\ Len(level_bounds) = Len(nodes_per_level)
        /\ level_bounds[1].start = 0
        /\ level_bounds[Len(level_bounds)].end = num_nodes
        /\ \A k \in 2 .. Len(level_bounds) :
               level_bounds[k].start = level_bounds[k - 1].end
        /\ \A k \in 1 .. Len(level_bounds) :
               /\ level_bounds[k].start <= level_bounds[k].end
               /\ level_bounds[k].end - level_bounds[k].start = nodes_per_level[k]

\* the six-level layout of the fixture count 100000 has been returned
C3_Witness ==
    /\ ipc = "plan_returned"
    /\ caller = "plan"
    /\ num_features = 100000
    /\ level_bounds = <<Range(0, 1), Range(1, 3), Range(3, 28), Range(28, 419),
                        Range(419, 6669), Range(6669, 106669)>>

\* C4: for n >= 1 the returned num_nodes_per_level ends with n, has every
\* other entry equal to ceil(next-finer entry / 16), has two levels or more,
\* and holds the value 1 at the root alone unless n = 1, where it is [1,1];
\* 179 gives [1,12,179], 15 gives [1,15], 100000 gives
\* [1,2,25,391,6250,100000].
C4_LevelSizes ==
    (PlanReturned /\ num_features >= 1) =>
        /\ Len(nodes_per_level) >= 2
        /\ nodes_per_level[Len(nodes_per_level)] = num_features
        /\ \A k \in 1 .. Len(nodes_per_level) - 1 :
               /\ NODE_SIZE * nodes_per_level[k] >= nodes_per_level[k + 1]
               /\ NODE_SIZE * (nodes_per_level[k] - 1) < nodes_per_level[k + 1]
        /\ \A k \in 2 .. Len(nodes_per_level) :
               nodes_per_level[k] = 1 => num_features = 1
        /\ num_features = 1 => nodes_per_level = <<1, 1>>
        /\ num_features = 179 => nodes_per_level = <<1, 12, 179>>
        /\ num_features = 15 => nodes_per_level = <<1, 15>>
        /\ num_features = 100000 =>
               nodes_per_level = <<1, 2, 25, 391, 6250, 100000>>

\* a three-level layout whose leaf count is no multiple of 16 has been returned
C4_Witness ==
    /\ ipc = "plan_returned"
    /\ num_features = 179
    /\ nodes_per_level = <<1, 12, 179>>

\* the 0-based level a flat index lies in
LevelOf(i) ==
    CHOOSE k \in 0 .. Len(level_bounds) - 1 : LB(k).start <= i /\ i < LB(k).end

\* the flat indices of the children of the k-th node of level L
OwnChildren(L, k) ==
    {j \in LB(L + 1).start + NODE_SIZE * k
            .. LB(L + 1).start + NODE_SIZE * (k + 1) - 1 : j < LB(L + 1).end}

\* C9: in the built tree every internal node's bbox is the union of the
\* boxes of its own children: the k-th node of a non-leaf level L covers the
\* flat positions prev.start + 16k up to min(prev.start + 16(k+1), prev.end);
\* every node of prev has exactly one parent, and a node with no child in
\* range holds the empty sentinel.
C9_NodeIsUnionOfOwnChildren ==
    (ipc = "done" /\ num_features >= 1) =>
        \A L \in 0 .. Len(level_bounds) - 2 :
            /\ \A k \in 0 .. RangeLen(LB(L)) - 1 :
                   flattened_tree[LB(L).start + k].bbox =
                       BoxUnion(flattened_tree, OwnChildren(L, k))
            /\ \A j \in LB(L + 1).start .. LB(L + 1).end - 1 :
                   Cardinality({k \in 0 .. RangeLen(LB(L)) - 1 :
                                   j \in reads[LB(L).start + k]}) = 1

\* C10: during the aggregation, for every n >= 1 and every internal node,
\* each flat index read as a child lies in the next-finer level's range
\* [prev.start, prev.end) and in the allocated array; no ragged last group
\* reads past the finer level's end, and no index is out of bounds.
C10_ChildReadsInRange ==
    /\ ipc # "panic"
    /\ ipc \in {"aggregate", "done"} =>
           \A i \in DOMAIN reads : \A j \in reads[i] :
               /\ j \in DOMAIN flattened_tree
               /\ LB(LevelOf(i) + 1).start <= j
               /\ j < LB(LevelOf(i) + 1).end

\* a three-level tree with a ragged leaf level is finished, and a node of
\* the middle level has read children
C10_Witness ==
    /\ ipc = "done"
    /\ Len(level_bounds) = 3
    /\ RangeLen(bottom) % NODE_SIZE # 0
    /\ \E i \in LB(1).start .. LB(1).end - 1 : reads[i] # {}

(***************************************************************************)
(* Claims about hilbert.rs                                                 *)
(***************************************************************************)
\* the grid coordinate of a centre (given as twice its value) on an axis of
\* the extent that starts at lo and is dim long: floor(65535 * (c - lo) / dim),
\* and 0 on a degenerate axis.  For an extent that starts at 0 this is
\* floor(65535 * c / dim).
CentreCell(c2, lo, dim) ==
    IF dim = 0 THEN 0 ELSE (HILBERT_MAX * (c2 - 2 * lo)) \div (2 * dim)

\* the Hilbert position of the centre of a feature's bbox within the extent:
\* the centre is ((min_x + max_x) / 2, (min_y + max_y) / 2)
HilbertPosition(f, ext) ==
    LET bb == for_feature(f)
    IN  hilbert(to_u32(CentreCell(bb.min_x + bb.max_x, ext.min_x, ext.max_x - ext.min_x)),
                to_u32(CentreCell(bb.min_y + bb.max_y, ext.min_y, ext.max_y - ext.min_y)))

\* the extent starts at the origin and is degenerate on no axis: the grid
\* coordinate of a centre c is then floor(65535 * c / dim) and lies on the
\* 16-bit grid, whether positions are taken from the origin or from the
\* extent's corner
ExtentAtOrigin ==
    /\ sort_extent.min_x = 0
    /\ sort_extent.min_y = 0
    /\ sort_extent.max_x > 0
    /\ sort_extent.max_y > 0

\* C5: sort_with_extent returns a permutation of its input (no feature lost,
\* none duplicated) in non-decreasing order of the Hilbert position of each
\* feature's bbox centre within the returned extent, and features of equal
\* position keep their input order.  Stated for the extents of
\* ExtentAtOrigin, where the position is the same on every reading.
C5_SortedByCentrePosition ==
    (hpc = "sort_returned" /\ ExtentAtOrigin) =>
        /\ Len(sorted_features) = Len(features)
        /\ \A i \in 1 .. Len(features) :
               Cardinality({j \in 1 .. Len(sorted_features) :
                               sorted_features[j] = features[i]}) = 1
        /\ \A i, j \in 1 .. Len(sorted_features) :
               i < j =>
                   /\ ~lt(HilbertPosition(sorted_features[j], sort_extent),
                          HilbertPosition(sorted_features[i], sort_extent))
                   /\ HilbertPosition(sorted_features[i], sort_extent)
                        = HilbertPosition(sorted_features[j], sort_extent)
                      => sorted_features[i].id < sorted_features[j].id

\* C6: hilbert is injective on the 16-bit grid: two distinct grid points of
\* the sample never get the same value.
C6_HilbertInjective ==
    (hpc = "encoded" /\ point_a # point_b) => value_a # value_b

\* two distinct corner points of the grid have been encoded
C6_Witness ==
    /\ hpc = "encoded"
    /\ point_a = <<HILBERT_MAX, 0>>
    /\ point_b = <<0, HILBERT_MAX>>
    /\ value_a = U32_MAX
    /\ value_b = x55555555

\* sort_with_extent has returned after comparing boxes: slice::sort_by calls
\* the comparator, and so hilbert_bbox, only on two elements or more
KeysComputed == hpc = "sort_returned" /\ Len(bounded_feats) >= 2

\* C11: the centre used for a feature's Hilbert position is taken per axis
\* from that axis's own bounds, (min_x + max_x) / 2 and (min_y + max_y) / 2:
\* the y grid coordinate handed to the encoder is the one of (min_y + max_y) / 2,
\* and two boxes with the same y bounds get the same y grid coordinate
\* whatever their x bounds.
C11_CentrePerAxis ==
    KeysComputed =>
        /\ \A i \in 1 .. Len(bounded_feats) :
               LET bb == bounded_feats[i].bb
               IN  /\ center2(bb) = <<bb.min_x + bb.max_x, bb.min_y + bb.max_y>>
                   /\ grid_coords(bb, sort_extent)[2]
                        = scale_to_grid(bb.min_y + bb.max_y, height(sort_extent))
        /\ \A i, j \in 1 .. Len(bounded_feats) :
               LET a == bounded_feats[i].bb
                   b == bounded_feats[j].bb
               IN  (a.min_y = b.min_y /\ a.max_y = b.max_y) =>
                       grid_coords(a, sort_extent)[2] = grid_coords(b, sort_extent)[2]

\* C12: when the extent is degenerate on an axis (width = 0 or height = 0: a
\* single point repeated, collinear features), hilbert_bbox does not divide by
\* zero on that axis: the grid coordinate it hands to hilbert for that axis
\* is 0.
C12_DegenerateAxisIsZero ==
    KeysComputed =>
        \A i \in 1 .. Len(bounded_feats) :
            LET g == grid_coords(bounded_feats[i].bb, sort_extent)
            IN  /\ width(sort_extent) = 0 => g[1] = to_u32(0)
                /\ height(sort_extent) = 0 => g[2] = to_u32(0)

\* the u32 value v lies on the 16-bit grid, 0 <= v <= 65535
OnGrid(v) == v \subseteq xFFFF

\* the extent is degenerate on no axis
NonDegenerate(ext) == width(ext) > 0 /\ height(ext) > 0

\* the box lies inside the extent
Contained(bb, ext) ==
    /\ ext.min_x <= bb.min_x /\ bb.max_x <= ext.max_x
    /\ ext.min_y <= bb.min_y /\ bb.max_y <= ext.max_y

\* C13: for every feature bbox contained in a non-degenerate extent, both
\* grid coordinates that hilbert_bbox hands to hilbert lie in [0, 65535],
\* wherever the extent lies in the plane (far from the origin, at negative
\* coordinates).
C13_GridCoordsInRange ==
    (KeysComputed /\ NonDegenerate(sort_extent)) =>
        \A i \in 1 .. Len(bounded_feats) :
            LET bb == bounded_feats[i].bb
                g == grid_coords(bb, sort_extent)
            IN  Contained(bb, sort_extent) => OnGrid(g[1]) /\ OnGrid(g[2])

(***************************************************************************)
(* Claims about par.rs                                                     *)
(***************************************************************************)
\* C7: with line i sent to worker i mod N and the printer reading the output
\* channels in turn, the batches are printed in the order of the input
\* lines, for every N, every number of lines and every interleaving of the
\* threads; removing a finished worker's channel never lets a later line's
\* batch come before an earlier line's.
C7_PrintedInInputOrder ==
    \A k \in 1 .. Len(printed) : printed[k] = k - 1

\* for_entity_par has returned after more lines than workers, a number of
\* lines no multiple of the number of workers, all printed
C7_Witness ==
    /\ mpc = "returned"
    /\ num_workers = 3
    /\ Len(lines) = 4
    /\ printed = <<0, 1, 2, 3>>

\* every line of the input is processed without error
AllLinesOk == \A i \in 1 .. Len(lines) : lines[i] = "ok"

\* for_entity_par has returned Ok: every worker got Done and ended, every
\* line's batch is printed, the printer holds no channel
ParReturned ==
    /\ mpc = "returned"
    /\ \A w \in 0 .. num_workers - 1 : wpc[w] = "exited"
    /\ printed = [k \in 1 .. Len(lines) |-> k - 1]
    /\ output_channels = <<>>

\* C8: for every finite input whose lines are all processed without error,
\* under fair scheduling for_entity_par returns Ok: the dispatcher, the
\* workers and the printer never deadlock on the bounded channels, every
\* worker receives Done, every line's batch is printed and the printer's
\* set of channels becomes empty.
C8_EventuallyReturns == AllLinesOk => <>ParReturned

\* for_entity_par has returned Ok with channels of capacity 1 and more lines
\* per worker than a channel holds
C8_Witness ==
    /\ ParReturned
    /\ AllLinesOk
    /\ buf_size = 1
    /\ num_workers = 3
    /\ Len(lines) = 4

\* the output channel of worker w is closed without a Done: the worker's
\* thread has ended by a panic and dropped its sender, and the printer still
\* holds the receiver
ClosedWithoutDone(w) ==
    /\ w \in DOMAIN wpc
    /\ wpc[w] = "panicked"
    /\ ~ReceiverDropped(w)

\* the printer no longer multiplexes the channel of worker w
Removed(w) == w \in DOMAIN wpc /\ ReceiverDropped(w)

\* C14: an output channel that has been closed (its worker's sender dropped,
\* so that recv reports a disconnect instead of a Done) is removed from the
\* channels the printer multiplexes, and the printer does not wait or spin on
\* it: its loop ends with no channel left.
C14_ClosedChannelRemoved ==
    \A w \in 0 .. MaxWorkers - 1 :
        ClosedWithoutDone(w) ~> (Removed(w) /\ ppc = "finished")

====
